---------------------------- MODULE Spec2Model ----------------------------
(***************************************************************************)
(* A model of the single-precision floating-point instructions of the     *)
(* RV64 user-mode simulator (src/src/cpu/rv64uf.rs) and of the hart state *)
(* they act on.                                                            *)
(*                                                                         *)
(* Machine words are kept at their real width.  Since the model checker's *)
(* integers are 32-bit, a 32-bit word is a pair <<h, l>> of 16-bit limbs  *)
(* (h the high half) and a 64-bit word a tuple <<l3, l2, l1, l0>> of four *)
(* 16-bit limbs, most significant first: 0xFFC00000 is <<65472, 0>>.      *)
(***************************************************************************)
EXTENDS Integers, Sequences, FiniteSets, TLC

(***************************************************************************)
(* Words                                                                   *)
(***************************************************************************)
Limb == 0 .. 65535

RECURSIVE Pow2(_)
Pow2(n) == IF n = 0 THEN 1 ELSE 2 * Pow2(n - 1)

\* number of significant bits of n >= 0
RECURSIVE BitLen(_)
BitLen(n) == IF n = 0 THEN 0 ELSE 1 + BitLen(n \div 2)

\* 64-bit word of a small non-negative integer (n < 2^31)
W64OfNat(n) == <<0, 0, n \div 65536, n % 65536>>

\* 32-bit word of a small non-negative integer (n < 2^31)
W32OfNat(n) == <<n \div 65536, n % 65536>>

\* u32 -> u64 (Rust `u as u64`)
ZExt32(w) == <<0, 0, w[1], w[2]>>

\* i32 -> i64 (Rust `v as i64` of an i32): sign extension
SExt32(w) == IF w[1] >= 32768 THEN <<65535, 65535, w[1], w[2]>>
                              ELSE <<0, 0, w[1], w[2]>>

\* u64/i64 -> u32/i32 (Rust `v as u32`): the low 32 bits
Lo32(v) == <<v[3], v[4]>>

\* the upper 32 bits of a 64-bit word
Hi32(v) == <<v[1], v[2]>>

\* wrapping 64-bit addition (Rust wrapping_add)
Add64(a, b) ==
    LET s4 == a[4] + b[4]
        s3 == a[3] + b[3] + s4 \div 65536
        s2 == a[2] + b[2] + s3 \div 65536
        s1 == a[1] + b[1] + s2 \div 65536
    IN  <<s1 % 65536, s2 % 65536, s3 % 65536, s4 % 65536>>

\* two's complement negation of a 64-bit word
Neg64(v) == Add64(<<65535 - v[1], 65535 - v[2], 65535 - v[3], 65535 - v[4]>>,
                  <<0, 0, 0, 1>>)

\* limb i of v, 0 outside the word
LimbAt(v, i) == IF i >= 1 /\ i <= 4 THEN v[i] ELSE 0

\* v << n (0 <= n < 64), the bits shifted out are dropped
Shl64(v, n) ==
    LET q == n \div 16
        k == n % 16
        r == [i \in 1 .. 4 |->
                (LimbAt(v, i + q) % Pow2(16 - k)) * Pow2(k)
                + LimbAt(v, i + q + 1) \div Pow2(16 - k)]
    IN  <<r[1], r[2], r[3], r[4]>>

\* v >> n (0 <= n < 64)
Shr64(v, n) ==
    LET q == n \div 16
        k == n % 16
        r == [i \in 1 .. 4 |->
                LimbAt(v, i - q) \div Pow2(k)
                + (LimbAt(v, i - q - 1) % Pow2(k)) * Pow2(16 - k)]
    IN  <<r[1], r[2], r[3], r[4]>>

\* some bit of v is shifted out by v >> n
ShrLoses(v, n) ==
    LET q == n \div 16
        k == n % 16
    IN  \/ \E j \in 1 .. 4 : j > 4 - q /\ v[j] # 0
        \/ LimbAt(v, 4 - q) % Pow2(k) # 0

\* number of significant bits of a 64-bit word
BitLen64(v) == IF v[1] # 0 THEN 48 + BitLen(v[1])
               ELSE IF v[2] # 0 THEN 32 + BitLen(v[2])
               ELSE IF v[3] # 0 THEN 16 + BitLen(v[3])
               ELSE BitLen(v[4])

\* the 64-bit word of a sign-extended immediate (an integer in -2048 .. 2047)
SExtImm(i) == IF i >= 0 THEN W64OfNat(i) ELSE Neg64(W64OfNat(-i))

(***************************************************************************)
(* IEEE-754 binary32 values, as their 32-bit patterns                      *)
(***************************************************************************)
FSign(w) == w[1] \div 32768
FExp(w)  == (w[1] \div 128) % 256
FMan(w)  == (w[1] % 128) * 65536 + w[2]
MkF32(s, e, m) == <<s * 32768 + e * 128 + m \div 65536, m % 65536>>

F32Zero    == <<0, 0>>          \* 0.0
F32NegOne  == <<49024, 0>>      \* -1.0           0xBF800000
F32Inf     == <<32640, 0>>      \* f32::INFINITY     0x7F800000
F32NegInf  == <<65408, 0>>      \* f32::NEG_INFINITY 0xFF800000
F32QNaN    == <<32704, 0>>      \* 0x7FC00000
F32NegQNaN == <<65472, 0>>      \* 0xFFC00000

\* f32::is_nan
IsNan(w)  == FExp(w) = 255 /\ FMan(w) # 0
IsInf(w)  == FExp(w) = 255 /\ FMan(w) = 0
IsZero(w) == FExp(w) = 0 /\ FMan(w) = 0

\* the magnitude bits as an integer (< 2^31), and the signed key that orders
\* the non-NaN values as IEEE does (+0 and -0 both have key 0)
FMag(w) == (w[1] % 32768) * 65536 + w[2]
FOrd(w) == IF FSign(w) = 1 THEN -FMag(w) ELSE FMag(w)


\* Rust's ==, < and <= on f32: false whenever an operand is NaN; -0.0 == +0.0
F32Eq(a, b) == ~IsNan(a) /\ ~IsNan(b) /\ FOrd(a) = FOrd(b)
F32Lt(a, b) == ~IsNan(a) /\ ~IsNan(b) /\ FOrd(a) < FOrd(b)
F32Le(a, b) == ~IsNan(a) /\ ~IsNan(b) /\ FOrd(a) <= FOrd(b)

\* A finite value as sign, integer significand and exponent of its last
\* bit: value = (-1)^s * sig * 2^ex
USig(w) == IF FExp(w) = 0 THEN FMan(w) ELSE 8388608 + FMan(w)
UExp(w) == IF FExp(w) = 0 THEN -149 ELSE FExp(w) - 150

\* Round sig * 2^ex (0 < sig < 2^31) to the nearest binary32, ties to even.
\* A caller that dropped low bits has or-ed "some bit was lost" into the
\* lowest bit of sig and keeps at least two bits below the rounding point.
RoundPack(s, ex, sig) ==
    LET n    == BitLen(sig)
        sh0  == n - 24
        sh   == IF ex + sh0 < -149 THEN -149 - ex ELSE sh0
        u    == ex + sh                          \* exponent of the result's last bit
        q    == IF sh <= 0 THEN sig * Pow2(-sh)
                ELSE IF sh >= 31 THEN 0 ELSE sig \div Pow2(sh)
        r    == IF sh <= 0 THEN 0
                ELSE IF sh >= 31 THEN sig ELSE sig % Pow2(sh)
        up   == IF sh <= 0 \/ sh >= 32 THEN FALSE
                ELSE LET half == Pow2(sh - 1)
                     IN  r > half \/ (r = half /\ q % 2 = 1)
        q1   == IF up THEN q + 1 ELSE q
        q2   == IF q1 = 16777216 THEN 8388608 ELSE q1
        u2   == IF q1 = 16777216 THEN u + 1 ELSE u
    IN  IF q2 < 8388608 THEN MkF32(s, 0, q2)       \* zero or subnormal
        ELSE IF u2 + 150 >= 255 THEN MkF32(s, 255, 0)  \* overflow to infinity
        ELSE MkF32(s, u2 + 150, q2 - 8388608)

\* sig * 2^ex with the significand shifted up to 24 bits (sig > 0)
RECURSIVE NormSig(_)
NormSig(sig) == IF sig >= 8388608 THEN sig ELSE NormSig(2 * sig)
RECURSIVE NormShift(_)
NormShift(sig) == IF sig >= 8388608 THEN 0 ELSE 1 + NormShift(2 * sig)

\* a quiet NaN made of a NaN operand (the quiet bit, bit 22, set)
Quiet(w) == MkF32(FSign(w), 255, (FMan(w) % 4194304) + 4194304)

\* The NaN the host's default arithmetic (x86-64 SSE) gives an operation with
\* operands a and b: the first NaN operand, quieted; the default NaN
\* 0xFFC00000 when no operand is a NaN (an invalid operation).
HostNan(a, b) == IF IsNan(a) THEN Quiet(a)
                 ELSE IF IsNan(b) THEN Quiet(b) ELSE F32NegQNaN

\* n >> d with the bits shifted out or-ed into the lowest bit
ShrJam(n, d) == IF d = 0 THEN n
                ELSE IF d >= 31 THEN (IF n = 0 THEN 0 ELSE 1)
                ELSE LET q == n \div Pow2(d)
                     IN  IF n % Pow2(d) # 0 /\ q % 2 = 0 THEN q + 1 ELSE q

\* Rust's a + b on f32 (host arithmetic, round to nearest even)
F32Add(a, b) ==
    IF IsNan(a) \/ IsNan(b) THEN HostNan(a, b)
    ELSE IF IsInf(a) THEN
        (IF IsInf(b) /\ FSign(a) # FSign(b) THEN F32NegQNaN ELSE a)
    ELSE IF IsInf(b) THEN b
    ELSE IF IsZero(a) /\ IsZero(b) THEN
        (IF FSign(a) = 1 /\ FSign(b) = 1 THEN a ELSE F32Zero)
    ELSE
        LET big   == IF UExp(a) >= UExp(b) THEN a ELSE b
            small == IF UExp(a) >= UExp(b) THEN b ELSE a
            d     == UExp(big) - UExp(small)
            A     == USig(big) * 32
            B     == ShrJam(USig(small) * 32, d)
            ex    == UExp(big) - 5
            same  == FSign(big) = FSign(small)
            sum   == IF same THEN A + B ELSE IF A >= B THEN A - B ELSE B - A
            sgn   == IF same \/ A >= B THEN FSign(big) ELSE FSign(small)
        IN  IF sum = 0 THEN F32Zero ELSE RoundPack(sgn, ex, sum)

\* -x on f32: the sign bit flipped
F32Neg(a) == MkF32(1 - FSign(a), FExp(a), FMan(a))

\* Rust's a - b on f32
F32Sub(a, b) ==
    IF IsNan(a) \/ IsNan(b) THEN HostNan(a, b) ELSE F32Add(a, F32Neg(b))

\* Rust's a * b on f32
F32Mul(a, b) ==
    LET s == (FSign(a) + FSign(b)) % 2
    IN  IF IsNan(a) \/ IsNan(b) THEN HostNan(a, b)
        ELSE IF IsInf(a) \/ IsInf(b) THEN
            (IF IsZero(a) \/ IsZero(b) THEN F32NegQNaN ELSE MkF32(s, 255, 0))
        ELSE IF IsZero(a) \/ IsZero(b) THEN MkF32(s, 0, 0)
        ELSE
            LET sa  == NormSig(USig(a))
                sb  == NormSig(USig(b))
                ex  == (UExp(a) - NormShift(USig(a))) + (UExp(b) - NormShift(USig(b)))
                a1  == sa \div 4096
                a0  == sa % 4096
                b1  == sb \div 4096
                b0  == sb % 4096
                lo  == a0 * b0
                t   == a1 * b0 + a0 * b1 + lo \div 4096
                hi  == a1 * b1 + t \div 4096            \* product \div 2^24
                low == (t % 4096) * 4096 + (lo % 4096)   \* product % 2^24
                top == hi * 64 + low \div 262144        \* product \div 2^18
                sig == IF low % 262144 # 0 /\ top % 2 = 0 THEN top + 1 ELSE top
            IN  RoundPack(s, ex + 18, sig)

\* the quotient bits of rem / den continued for n more binary places:
\* <<quotient, remainder>>
RECURSIVE DivBits(_, _, _, _)
DivBits(q, rem, den, n) ==
    IF n = 0 THEN <<q, rem>>
    ELSE IF 2 * rem >= den THEN DivBits(2 * q + 1, 2 * rem - den, den, n - 1)
    ELSE DivBits(2 * q, 2 * rem, den, n - 1)

\* Rust's a / b on f32
F32Div(a, b) ==
    LET s == (FSign(a) + FSign(b)) % 2
    IN  IF IsNan(a) \/ IsNan(b) THEN HostNan(a, b)
        ELSE IF IsInf(a) THEN
            (IF IsInf(b) THEN F32NegQNaN ELSE MkF32(s, 255, 0))
        ELSE IF IsInf(b) THEN MkF32(s, 0, 0)
        ELSE IF IsZero(b) THEN
            (IF IsZero(a) THEN F32NegQNaN ELSE MkF32(s, 255, 0))
        ELSE IF IsZero(a) THEN MkF32(s, 0, 0)
        ELSE
            LET sa == NormSig(USig(a))
                sb == NormSig(USig(b))
                ex == (UExp(a) - NormShift(USig(a))) - (UExp(b) - NormShift(USig(b)))
                qr == DivBits(sa \div sb, sa % sb, sb, 27)
                sig == 2 * qr[1] + (IF qr[2] # 0 THEN 1 ELSE 0)
            IN  RoundPack(s, ex - 28, sig)

\* the integer square root of n * 4^k by the digit-by-digit method, taking
\* the radicand two bits at a time: <<root, remainder>>
RECURSIVE SqrtBits(_, _, _, _, _)
SqrtBits(root, rem, n, pairs, zeros) ==
    IF pairs = 0 /\ zeros = 0 THEN <<root, rem>>
    ELSE LET pair == IF pairs > 0 THEN (n \div Pow2(2 * (pairs - 1))) % 4 ELSE 0
             r4   == 4 * rem + pair
             p1   == IF pairs > 0 THEN pairs - 1 ELSE 0
             z1   == IF pairs > 0 THEN zeros ELSE zeros - 1
         IN  IF r4 >= 4 * root + 1
             THEN SqrtBits(2 * root + 1, r4 - (4 * root + 1), n, p1, z1)
             ELSE SqrtBits(2 * root, r4, n, p1, z1)

\* Rust's f32::sqrt
F32Sqrt(a) ==
    IF IsNan(a) THEN HostNan(a, a)
    ELSE IF IsZero(a) THEN a
    ELSE IF FSign(a) = 1 THEN F32NegQNaN
    ELSE IF IsInf(a) THEN a
    ELSE
        LET s0  == NormSig(USig(a))
            e0  == UExp(a) - NormShift(USig(a))
            odd == e0 % 2 # 0
            n   == IF odd THEN 2 * s0 ELSE s0
            e   == IF odd THEN e0 - 1 ELSE e0
            rr  == SqrtBits(0, 0, n, 13, 14)
            sig == 2 * rr[1] + (IF rr[2] # 0 THEN 1 ELSE 0)
        IN  RoundPack(0, (e \div 2) - 15, sig)

\* Rust's f32::trunc: the integer part, toward zero
F32Trunc(a) ==
    LET E == FExp(a) - 127
    IN  IF FExp(a) = 255 \/ E >= 23 THEN a
        ELSE IF E < 0 THEN MkF32(FSign(a), 0, 0)
        ELSE MkF32(FSign(a), FExp(a), FMan(a) - (FMan(a) % Pow2(23 - E)))

\* Rust's f32::fract: self - self.trunc()
F32Fract(a) == F32Sub(a, F32Trunc(a))


(***************************************************************************)
(* Rust's numeric casts (`as`): float to integer truncates toward zero,   *)
(* saturates at the bounds of the target type and maps NaN to 0; integer  *)
(* to float rounds to nearest, ties to even.                               *)
(***************************************************************************)
I64Max == <<32767, 65535, 65535, 65535>>
I64Min == <<32768, 0, 0, 0>>
U64Max == <<65535, 65535, 65535, 65535>>
I32Max == <<32767, 65535>>
I32Min == <<32768, 0>>
U32Max == <<65535, 65535>>
Zero64 == <<0, 0, 0, 0>>
Zero32 == <<0, 0>>

\* the integer part of |a| as a 64-bit word, for a finite a below 2^64
F32IntMag(a) ==
    LET E == FExp(a) - 127
    IN  IF E < 0 THEN Zero64
        ELSE IF E <= 23 THEN W64OfNat(USig(a) \div Pow2(23 - E))
        ELSE Shl64(W64OfNat(USig(a)), E - 23)

\* `v as i64`
F32ToI64(a) ==
    IF IsNan(a) THEN Zero64
    ELSE IF FExp(a) - 127 >= 63 THEN (IF FSign(a) = 1 THEN I64Min ELSE I64Max)
    ELSE IF FSign(a) = 1 THEN Neg64(F32IntMag(a)) ELSE F32IntMag(a)

\* `v as u64`
F32ToU64(a) ==
    IF IsNan(a) \/ FSign(a) = 1 THEN Zero64
    ELSE IF FExp(a) - 127 >= 64 THEN U64Max
    ELSE F32IntMag(a)

\* `v as i32`
F32ToI32(a) ==
    IF IsNan(a) THEN Zero32
    ELSE IF FExp(a) - 127 >= 31 THEN (IF FSign(a) = 1 THEN I32Min ELSE I32Max)
    ELSE IF FSign(a) = 1 THEN Lo32(Neg64(F32IntMag(a))) ELSE Lo32(F32IntMag(a))

\* `v as u32`
F32ToU32(a) ==
    IF IsNan(a) \/ FSign(a) = 1 THEN Zero32
    ELSE IF FExp(a) - 127 >= 32 THEN U32Max
    ELSE Lo32(F32IntMag(a))

\* a 64-bit magnitude v > 0 as <<sig, ex>> with v = sig * 2^ex up to the bits
\* shifted out, which are or-ed into the lowest bit of sig (sig < 2^30)
Reduce64(v) ==
    LET n  == BitLen64(v)
        sh == IF n > 30 THEN n - 30 ELSE 0
        w  == Shr64(v, sh)
        q  == w[3] * 65536 + w[4]
    IN  <<IF ShrLoses(v, sh) /\ q % 2 = 0 THEN q + 1 ELSE q, sh>>

\* `v as f32` of a u64
U64ToF32(v) ==
    IF v = Zero64 THEN F32Zero
    ELSE LET r == Reduce64(v) IN RoundPack(0, r[2], r[1])

\* `v as f32` of an i64
I64ToF32(v) ==
    IF v = Zero64 THEN F32Zero
    ELSE IF v[1] >= 32768
         THEN LET r == Reduce64(Neg64(v)) IN RoundPack(1, r[2], r[1])
         ELSE LET r == Reduce64(v) IN RoundPack(0, r[2], r[1])


(***************************************************************************)
(* The hart                                                                *)
(***************************************************************************)
\* The registers 0 .. NumRegs - 1 of the 32 integer and 32 floating-point
\* registers are modelled.
NumRegs == 3
Regs == 0 .. NumRegs - 1

\* The longest instruction sequence of SeqSpec.
MaxSeqLen == 3

VARIABLES
    x,            \* cpu.x: the integer registers, 64-bit words
    f,            \* cpu.f: the floating-point registers, the bits of each f64
    fcsr,         \* the floating-point control and status register
    reservation,  \* the LR reservation: [addr, width], width 0 when there is none
    mem,          \* the memory words the instructions address, by address
    hist,         \* the instructions executed so far, each with its operands
    limit,        \* the number of instructions this run executes
    pc,           \* cpu.pc: the address of the next instruction to fetch
    fuel,         \* run_test: the ticks the driver still allows
    dump_instructions,  \* run_test: whether DUMP_INSTRUCTIONS is set
    target,       \* run_test: the memory image, as its instruction words
    ended         \* run_test: how the loop ended, or that it is running

\* the state of the test driver
driver == <<pc, fuel, dump_instructions, target, ended>>

vars == <<x, f, fcsr, reservation, mem, hist, limit, driver>>

NoReservation == [addr |-> Zero64, width |-> 0]

\* fcsr bits
NX == 1
UF == 2
OF == 4
DZ == 8
NV == 16
FlagBits == {NX, UF, OF, DZ, NV}

HasBit(n, b) == (n \div b) % 2 = 1
SetBit(n, b) == IF HasBit(n, b) THEN n ELSE n + b

\* Cpu::get_f32: the single held in f[r]; a register that is not NaN-boxed
\* reads as the canonical NaN
get_f32(r) == IF Hi32(f[r]) = <<65535, 65535>> THEN Lo32(f[r]) ELSE F32QNaN

\* Cpu::set_f32: f with the single v NaN-boxed into f[r]
set_f32(r, v) == [f EXCEPT ![r] = <<65535, 65535, v[1], v[2]>>]

\* Cpu::set_fcsr_nv, set_fcsr_dz, set_fcsr_nx: the flag or-ed into fcsr
set_fcsr_nv(c) == SetBit(c, NV)
set_fcsr_dz(c) == SetBit(c, DZ)
set_fcsr_nx(c) == SetBit(c, NX)

\* Cpu::read_fflags: the five flag bits; Cpu::write_fflags: they are replaced
read_fflags(c) == c % 32
write_fflags(c, v) == (c \div 32) * 32 + (v % 32)

\* The hart's tick, step 7: whatever the operation wrote, x[0] is 0 afterwards
TickX0(xs) == [xs EXCEPT ![0] = Zero64]

\* x after the operation wrote v to x[rd]
WriteX(rd, v) == TickX0([x EXCEPT ![rd] = v])

\* The NaN an arithmetic result may be: Rust leaves the sign and payload of
\* a NaN result to the host; r is the x86-64 result, 0x7FC00000 the default
\* NaN of the hosts that produce a positive one.
NanOutcomes(r) == IF IsNan(r) THEN {r, F32QNaN} ELSE {r}

\* `v.fract() != 0.0`
FractNonZero(v) == ~F32Eq(F32Fract(v), F32Zero)

(***************************************************************************)
(* Inputs                                                                  *)
(***************************************************************************)
F32NegZero == <<32768, 0>>      \* -0.0  0x80000000
F32One     == <<16256, 0>>      \*  1.0  0x3F800000
F32SNaN    == <<32640, 1>>      \* a signalling NaN, 0x7F800001

\* Single-precision operands: zeros, fractions, integers, the bounds of the
\* integer types, infinities and NaNs.
F32Big ==
    { F32Zero, F32NegZero, F32One, F32NegOne,
      <<16128, 0>>,         \*  0.5        0x3F000000
      <<48896, 0>>,         \* -0.5        0xBF000000
      <<16320, 0>>,         \*  1.5        0x3FC00000
      <<49088, 0>>,         \* -1.5        0xBFC00000
      <<16416, 0>>,         \*  2.5        0x40200000
      <<20224, 0>>,         \*  2^31       0x4F000000
      <<20274, 53342>>,     \*  3.0e9      0x4F32D05E
      <<24320, 0>>,         \*  2^63       0x5F000000
      <<24448, 0>>,         \*  2^64       0x5F800000
      <<52992, 0>>,         \* -2^31       0xCF000000
      <<53042, 53342>>,     \* -3.0e9      0xCF32D05E
      <<57216, 0>>,         \* -2^64       0xDF800000
      <<32768, 1>>,         \* the negative subnormal nearest 0, 0x80000001
      F32Inf, F32NegInf, F32QNaN, F32NegQNaN, F32SNaN }

F32Small == { F32Zero, F32NegZero, F32One, F32QNaN }

\* Integer operands
XIn ==
    { <<65535, 65535, 65472, 0>>,        \* 0xFFFFFFFFFFC00000
      <<0, 0, 65472, 0>>,                \* 0x00000000FFC00000
      <<4660, 22136, 16256, 0>>,         \* 0x123456783F800000
      <<0, 0, 32768, 0>>,                \* 0x0000000080000000
      <<0, 0, 256, 1>>,                  \* 0x0000000001000001
      <<32767, 65535, 65535, 65535>> }   \* 0x7FFFFFFFFFFFFFFF

\* fcsr: nothing set; every flag but nx set, frm = 1; nx set
FcsrIn == {0, 62, 1}

\* The memory words the instructions address, and what they hold at first
BaseAddr == <<0, 0, 0, 16>>
MemInit == (<<0, 0, 0, 16>> :> <<16256, 0>>)          \* 0x3F800000
        @@ (<<0, 0, 0, 20>> :> <<49024, 0>>)          \* 0xBF800000
        @@ (<<0, 0, 0, 24>> :> <<32704, 0>>)          \* 0x7FC00000
        @@ (<<0, 0, 0, 28>> :> <<65472, 0>>)          \* 0xFFC00000

\* immediates of FLW and FSW
ImmIn == {-4, 0, 4, 8, 12, 16}

Box(v) == <<65535, 65535, v[1], v[2]>>

\* what the driver reports while its loop runs
Running == [how |-> "running", diag |-> {}]

\* no program is loaded and no loop runs: instructions are applied directly
NoDriver ==
    /\ pc = 0
    /\ fuel = 0
    /\ dump_instructions = FALSE
    /\ target = <<>>
    /\ ended = Running

\* A hart as constructed (every register zero, no reservation), with
\* operands placed in f[1], f[2] and x[1] and a base address in x[2].
Loaded(a, b, xv, c) ==
    /\ f = [r \in Regs |-> IF r = 1 THEN Box(a) ELSE IF r = 2 THEN Box(b) ELSE Zero64]
    /\ x = [r \in Regs |-> IF r = 1 THEN xv ELSE IF r = 2 THEN BaseAddr ELSE Zero64]
    /\ fcsr = c
    /\ reservation = NoReservation
    /\ mem = MemInit
    /\ hist = <<>>
    /\ NoDriver

\* One instruction is applied to a hart holding any of the operands.
Init ==
    /\ limit = 1
    /\ \E c \in FcsrIn :
         \/ \E a \in F32Big, b \in F32Small : Loaded(a, b, Zero64, c)
         \/ \E xv \in XIn : Loaded(F32Zero, F32Zero, xv, c)

\* what hist records of an instruction: its name and register fields, the
\* operands a and b it read, x[rs1], fcsr and the memory word it addressed,
\* all as they were before it, and whether the host's cast raised inexact
Record(op, rd, rs1, rs2, a, b, addr) ==
    [op |-> op, rd |-> rd, rs1 |-> rs1, rs2 |-> rs2,
     a |-> a, b |-> b, xs1 |-> x[rs1], fcsr0 |-> fcsr,
     addr |-> addr,
     old |-> IF addr \in DOMAIN mem THEN mem[addr] ELSE Zero32,
     hostNx |-> FALSE]

Executed(op, rd, rs1, rs2, a, b, addr) ==
    Append(hist, Record(op, rd, rs1, rs2, a, b, addr))

CanRun == Len(hist) < limit


(***************************************************************************)
(* The instructions of rv64uf.rs.  Each action is one tick that executes  *)
(* the instruction: the operation, then x[0] := 0.                         *)
(***************************************************************************)
\* an arithmetic instruction: the result r (any NaN it may be) goes to f[rd]
WriteF32(op, rd, rs1, rs2, v1, v2, r) ==
    /\ CanRun
    /\ \E o \in NanOutcomes(r) : f' = set_f32(rd, o)
    /\ x' = TickX0(x)
    /\ hist' = Executed(op, rd, rs1, rs2, v1, v2, Zero64)
    /\ UNCHANGED <<fcsr, reservation, mem, limit, driver>>

FADD_S(rd, rs1, rs2) ==
    LET v1 == get_f32(rs1)
        v2 == get_f32(rs2)
    IN  WriteF32("FADD.S", rd, rs1, rs2, v1, v2, F32Add(v1, v2))

FSUB_S(rd, rs1, rs2) ==
    LET v1 == get_f32(rs1)
        v2 == get_f32(rs2)
    IN  WriteF32("FSUB.S", rd, rs1, rs2, v1, v2, F32Sub(v1, v2))

FMUL_S(rd, rs1, rs2) ==
    LET v1 == get_f32(rs1)
        v2 == get_f32(rs2)
    IN  WriteF32("FMUL.S", rd, rs1, rs2, v1, v2, F32Mul(v1, v2))

FSQRT_S(rd, rs1) ==
    LET v == get_f32(rs1)
    IN  WriteF32("FSQRT.S", rd, rs1, 0, v, Zero32, F32Sqrt(v))

\* FDIV.S: the value written and whether dz is set.  `divisor == 0.0` is
\* tested first, `divisor == -0.0` second.
FdivResult(dividend, divisor) ==
    IF F32Eq(divisor, F32Zero) THEN [v |-> F32Inf, dz |-> TRUE]
    ELSE IF F32Eq(divisor, F32NegZero) THEN [v |-> F32NegInf, dz |-> TRUE]
    ELSE [v |-> F32Div(dividend, divisor), dz |-> FALSE]

FDIV_S(rd, rs1, rs2) ==
    LET dividend == get_f32(rs1)
        divisor  == get_f32(rs2)
        r        == FdivResult(dividend, divisor)
    IN  /\ CanRun
        /\ \E o \in NanOutcomes(r.v) : f' = set_f32(rd, o)
        /\ fcsr' = IF r.dz THEN set_fcsr_dz(fcsr) ELSE fcsr
        /\ x' = TickX0(x)
        /\ hist' = Executed("FDIV.S", rd, rs1, rs2, dividend, divisor, Zero64)
        /\ UNCHANGED <<reservation, mem, limit, driver>>

\* FLW: f[rd] = f64::from_bits(*(addr as *const i32) as i64 as u64)
FlwBits(word) == SExt32(word)

FLW(rd, rs1, imm) ==
    LET addr == Add64(x[rs1], SExtImm(imm))
    IN  /\ CanRun
        /\ addr \in DOMAIN mem
        /\ f' = [f EXCEPT ![rd] = FlwBits(mem[addr])]
        /\ x' = TickX0(x)
        /\ hist' = Executed("FLW", rd, rs1, 0, mem[addr], Zero32, addr)
        /\ UNCHANGED <<fcsr, reservation, mem, limit, driver>>

\* FSW: *(addr as *mut u32) = cpu.f[rs2].to_bits() as u32
FSW(rs1, rs2, imm) ==
    LET addr == Add64(x[rs1], SExtImm(imm))
    IN  /\ CanRun
        /\ addr \in DOMAIN mem
        /\ mem' = [mem EXCEPT ![addr] = Lo32(f[rs2])]
        /\ x' = TickX0(x)
        /\ hist' = Executed("FSW", 0, rs1, rs2, Lo32(f[rs2]), Zero32, addr)
        /\ UNCHANGED <<f, fcsr, reservation, limit, driver>>

\* FMV.X.W without its special case: every pattern is sign-extended
FmvXWValuePlain(value) == SExt32(value)

\* FMV.X.W: the value written to x[rd], from the low 32 bits of f[rs1]
FmvXWValue(value) ==
    IF value = <<65472, 0>> THEN <<0, 0, 32704, 0>>   \* 0xffc00000 -> 0x7fc00000
    ELSE SExt32(value)

FMV_X_W(rd, rs1) ==
    LET value == Lo32(f[rs1])
    IN  /\ CanRun
        /\ x' = WriteX(rd, FmvXWValue(value))
        /\ hist' = Executed("FMV.X.W", rd, rs1, 0, value, Zero32, Zero64)
        /\ UNCHANGED <<f, fcsr, reservation, mem, limit, driver>>

\* FMV.W.X: f32::from_bits(cpu.x[rs1] as u32), NaN-boxed
FMV_W_X(rd, rs1) ==
    /\ CanRun
    /\ f' = set_f32(rd, Lo32(x[rs1]))
    /\ x' = TickX0(x)
    /\ hist' = Executed("FMV.W.X", rd, rs1, 0, Lo32(x[rs1]), Zero32, Zero64)
    /\ UNCHANGED <<fcsr, reservation, mem, limit, driver>>

\* the sign injections: sign_bit | (rs1_bits & 0x7fffffff)
FsgnjBits(rs1_bits, rs2_bits) ==
    <<(rs2_bits[1] \div 32768) * 32768 + (rs1_bits[1] % 32768), rs1_bits[2]>>

FsgnjnBits(rs1_bits, rs2_bits) ==
    <<(32768 - (rs2_bits[1] \div 32768) * 32768) + (rs1_bits[1] % 32768),
      rs1_bits[2]>>

\* FSGNJX.S with the sign of rs2 alone, as FSGNJ.S takes it
FsgnjxBitsFromRs2(rs1_bits, rs2_bits) ==
    <<(rs2_bits[1] \div 32768) * 32768 + (rs1_bits[1] % 32768), rs1_bits[2]>>

FsgnjxBits(rs1_bits, rs2_bits) ==
    <<(IF rs1_bits[1] \div 32768 # rs2_bits[1] \div 32768 THEN 32768 ELSE 0)
        + (rs1_bits[1] % 32768),
      rs1_bits[2]>>

\* a sign injection writes the bits as they are: f32::from_bits
SignInject(op, rd, rs1, rs2, bits) ==
    /\ CanRun
    /\ f' = set_f32(rd, bits)
    /\ x' = TickX0(x)
    /\ hist' = Executed(op, rd, rs1, rs2, get_f32(rs1), get_f32(rs2), Zero64)
    /\ UNCHANGED <<fcsr, reservation, mem, limit, driver>>

FSGNJ_S(rd, rs1, rs2) ==
    SignInject("FSGNJ.S", rd, rs1, rs2, FsgnjBits(get_f32(rs1), get_f32(rs2)))

FSGNJN_S(rd, rs1, rs2) ==
    SignInject("FSGNJN.S", rd, rs1, rs2, FsgnjnBits(get_f32(rs1), get_f32(rs2)))

FSGNJX_S(rd, rs1, rs2) ==
    SignInject("FSGNJX.S", rd, rs1, rs2, FsgnjxBits(get_f32(rs1), get_f32(rs2)))

\* the comparisons: 1 or 0 in x[rd]
Bool64(t) == IF t THEN <<0, 0, 0, 1>> ELSE Zero64

\* FEQ.S comparing the bit patterns instead of the values
FeqValueBitwise(v1, v2) == Bool64(v1 = v2)

FeqValue(v1, v2) == Bool64(F32Eq(v1, v2))

FEQ_S(rd, rs1, rs2) ==
    LET v1 == get_f32(rs1)
        v2 == get_f32(rs2)
    IN  /\ CanRun
        /\ x' = WriteX(rd, FeqValue(v1, v2))
        /\ hist' = Executed("FEQ.S", rd, rs1, rs2, v1, v2, Zero64)
        /\ UNCHANGED <<f, fcsr, reservation, mem, limit, driver>>

\* FLE.S and FLT.S set nv when an operand is NaN
OrderedFcsr(v1, v2) ==
    IF IsNan(v1) \/ IsNan(v2) THEN set_fcsr_nv(fcsr) ELSE fcsr

FLE_S(rd, rs1, rs2) ==
    LET v1 == get_f32(rs1)
        v2 == get_f32(rs2)
    IN  /\ CanRun
        /\ fcsr' = OrderedFcsr(v1, v2)
        /\ x' = WriteX(rd, Bool64(F32Le(v1, v2)))
        /\ hist' = Executed("FLE.S", rd, rs1, rs2, v1, v2, Zero64)
        /\ UNCHANGED <<f, reservation, mem, limit, driver>>

FLT_S(rd, rs1, rs2) ==
    LET v1 == get_f32(rs1)
        v2 == get_f32(rs2)
    IN  /\ CanRun
        /\ fcsr' = OrderedFcsr(v1, v2)
        /\ x' = WriteX(rd, Bool64(F32Lt(v1, v2)))
        /\ hist' = Executed("FLT.S", rd, rs1, rs2, v1, v2, Zero64)
        /\ UNCHANGED <<f, reservation, mem, limit, driver>>


\* the conversions from integer: Rust's `as f32`
IntToF32(op, rd, rs1, r) ==
    /\ CanRun
    /\ f' = set_f32(rd, r)
    /\ x' = TickX0(x)
    /\ hist' = Executed(op, rd, rs1, 0, Zero32, Zero32, Zero64)
    /\ UNCHANGED <<fcsr, reservation, mem, limit, driver>>

\* cpu.x[rs1] as i32 as f32
FCVT_S_W(rd, rs1) ==
    IntToF32("FCVT.S.W", rd, rs1, I64ToF32(SExt32(Lo32(x[rs1]))))

\* cpu.x[rs1] as u32 as f32
FCVT_S_WU(rd, rs1) ==
    IntToF32("FCVT.S.WU", rd, rs1, U64ToF32(ZExt32(Lo32(x[rs1]))))

\* cpu.x[rs1] as f32
FCVT_S_L(rd, rs1) == IntToF32("FCVT.S.L", rd, rs1, I64ToF32(x[rs1]))

\* cpu.x[rs1] as u64 as f32
FCVT_S_LU(rd, rs1) == IntToF32("FCVT.S.LU", rd, rs1, U64ToF32(x[rs1]))

\* FCVT.L.S: cpu.x[rd] = cpu.get_f32(rs1) as i64; fcsr is not touched
FCVT_L_S(rd, rs1) ==
    LET v == get_f32(rs1)
    IN  /\ CanRun
        /\ x' = WriteX(rd, F32ToI64(v))
        /\ hist' = Executed("FCVT.L.S", rd, rs1, 0, v, Zero32, Zero64)
        /\ UNCHANGED <<f, fcsr, reservation, mem, limit, driver>>

\* the invalid inputs taken to be every negative value: `v < 0.0`
FcvtUInvalidNegative(v) == IsNan(v) \/ F32Lt(v, F32Zero)

\* FCVT.LU.S and FCVT.WU.S: the inputs answered with 0 and nv
FcvtUInvalid(v) == IsNan(v) \/ F32Le(v, F32NegOne)

\* the flags cleared instead of put back: write_fflags(0)
FcvtLuRestoreClear(cur, flags, new_flags) ==
    IF new_flags % 2 = 1 /\ flags % 2 = 0 THEN write_fflags(cur, 0) ELSE cur

\* FCVT.LU.S, when the value has no fractional part: the flags after the
\* cast (new_flags) are put back to those read before it (flags) when the
\* cast has set nx; cur is fcsr after the cast
FcvtLuRestore(cur, flags, new_flags) ==
    IF new_flags % 2 = 1 /\ flags % 2 = 0 THEN write_fflags(cur, flags) ELSE cur

\* FCVT.LU.S: fcsr afterwards.  The host's cast to u64 may itself raise the
\* inexact flag (hostNx), in the flags that read_fflags reads.
FcvtLuFcsr(v, hostNx) ==
    IF FcvtUInvalid(v) THEN set_fcsr_nv(fcsr)
    ELSE LET flags == read_fflags(fcsr)
             cur   == IF hostNx THEN SetBit(fcsr, NX) ELSE fcsr
         IN  IF FractNonZero(v) THEN set_fcsr_nx(cur)
             ELSE FcvtLuRestore(cur, flags, read_fflags(cur))

FCVT_LU_S(rd, rs1) ==
    LET v == get_f32(rs1)
    IN  /\ CanRun
        /\ \E hostNx \in BOOLEAN :
              /\ fcsr' = FcvtLuFcsr(v, hostNx)
              /\ hist' = Append(hist,
                     [Record("FCVT.LU.S", rd, rs1, 0, v, Zero32, Zero64)
                          EXCEPT !.hostNx = hostNx /\ ~FcvtUInvalid(v)])
        /\ x' = WriteX(rd, IF FcvtUInvalid(v) THEN Zero64 ELSE F32ToU64(v))
        /\ UNCHANGED <<f, reservation, mem, limit, driver>>

\* FCVT.W.S: NaN gives 0 and nv; otherwise `v as i32 as i64`, and nx when
\* v.fract() != 0.0
FcvtWValue(v) == IF IsNan(v) THEN Zero64 ELSE SExt32(F32ToI32(v))
FcvtWFcsr(v) == IF IsNan(v) THEN set_fcsr_nv(fcsr)
                ELSE IF FractNonZero(v) THEN set_fcsr_nx(fcsr) ELSE fcsr

FCVT_W_S(rd, rs1) ==
    LET v == get_f32(rs1)
    IN  /\ CanRun
        /\ fcsr' = FcvtWFcsr(v)
        /\ x' = WriteX(rd, FcvtWValue(v))
        /\ hist' = Executed("FCVT.W.S", rd, rs1, 0, v, Zero32, Zero64)
        /\ UNCHANGED <<f, reservation, mem, limit, driver>>

\* FCVT.WU.S zero-extending: no upper half
FcvtWuUpperZero(u) == <<0, 0>>

\* FCVT.WU.S: the upper half or-ed onto u = v as u32
FcvtWuUpper(u) == IF u[1] >= 32768 THEN <<65535, 65535>> ELSE <<0, 0>>

FcvtWuValue(v) ==
    IF FcvtUInvalid(v) THEN Zero64
    ELSE LET u     == F32ToU32(v)
             upper == FcvtWuUpper(u)
         IN  <<upper[1], upper[2], u[1], u[2]>>

FcvtWuFcsr(v) == IF FcvtUInvalid(v) THEN set_fcsr_nv(fcsr)
                 ELSE IF FractNonZero(v) THEN set_fcsr_nx(fcsr) ELSE fcsr

FCVT_WU_S(rd, rs1) ==
    LET v == get_f32(rs1)
    IN  /\ CanRun
        /\ fcsr' = FcvtWuFcsr(v)
        /\ x' = WriteX(rd, FcvtWuValue(v))
        /\ hist' = Executed("FCVT.WU.S", rd, rs1, 0, v, Zero32, Zero64)
        /\ UNCHANGED <<f, reservation, mem, limit, driver>>

(***************************************************************************)
(* LR.W and SC.W, the atomics FSW meets                                    *)
(***************************************************************************)
\* LR.W: load the word at x[rs1], sign-extended, and reserve it
LR_W(rd, rs1) ==
    LET addr == x[rs1]
    IN  /\ CanRun
        /\ addr \in DOMAIN mem
        /\ x' = WriteX(rd, SExt32(mem[addr]))
        /\ reservation' = [addr |-> addr, width |-> 4]
        /\ hist' = Executed("LR.W", rd, rs1, 0, mem[addr], Zero32, addr)
        /\ UNCHANGED <<f, fcsr, mem, limit, driver>>

\* SC.W: store the low word of x[rs2] and write 0 if the word at x[rs1] is
\* still reserved; write 1 and store nothing otherwise
SC_W(rd, rs1, rs2) ==
    LET addr == x[rs1]
        ok   == reservation = [addr |-> addr, width |-> 4]
    IN  /\ CanRun
        /\ addr \in DOMAIN mem
        /\ mem' = IF ok THEN [mem EXCEPT ![addr] = Lo32(x[rs2])] ELSE mem
        /\ x' = WriteX(rd, Bool64(~ok))
        /\ reservation' = NoReservation
        /\ hist' = Executed("SC.W", rd, rs1, rs2, Lo32(x[rs2]), Zero32, addr)
        /\ UNCHANGED <<f, fcsr, limit, driver>>

(***************************************************************************)
(* Specifications                                                          *)
(***************************************************************************)
\* one instruction of rv64uf.rs
Next ==
    \/ \E rd \in Regs, rs1 \in Regs, rs2 \in Regs : FADD_S(rd, rs1, rs2)
    \/ \E rd \in Regs, rs1 \in Regs, rs2 \in Regs : FSUB_S(rd, rs1, rs2)
    \/ \E rd \in Regs, rs1 \in Regs, rs2 \in Regs : FMUL_S(rd, rs1, rs2)
    \/ \E rd \in Regs, rs1 \in Regs, rs2 \in Regs : FDIV_S(rd, rs1, rs2)
    \/ \E rd \in Regs, rs1 \in Regs : FSQRT_S(rd, rs1)
    \/ \E rd \in Regs, rs1 \in Regs, imm \in ImmIn : FLW(rd, rs1, imm)
    \/ \E rs1 \in Regs, rs2 \in Regs, imm \in ImmIn : FSW(rs1, rs2, imm)
    \/ \E rd \in Regs, rs1 \in Regs : FMV_X_W(rd, rs1)
    \/ \E rd \in Regs, rs1 \in Regs : FMV_W_X(rd, rs1)
    \/ \E rd \in Regs, rs1 \in Regs, rs2 \in Regs : FSGNJ_S(rd, rs1, rs2)
    \/ \E rd \in Regs, rs1 \in Regs, rs2 \in Regs : FSGNJN_S(rd, rs1, rs2)
    \/ \E rd \in Regs, rs1 \in Regs, rs2 \in Regs : FSGNJX_S(rd, rs1, rs2)
    \/ \E rd \in Regs, rs1 \in Regs, rs2 \in Regs : FEQ_S(rd, rs1, rs2)
    \/ \E rd \in Regs, rs1 \in Regs, rs2 \in Regs : FLE_S(rd, rs1, rs2)
    \/ \E rd \in Regs, rs1 \in Regs, rs2 \in Regs : FLT_S(rd, rs1, rs2)
    \/ \E rd \in Regs, rs1 \in Regs : FCVT_S_W(rd, rs1)
    \/ \E rd \in Regs, rs1 \in Regs : FCVT_S_WU(rd, rs1)
    \/ \E rd \in Regs, rs1 \in Regs : FCVT_L_S(rd, rs1)
    \/ \E rd \in Regs, rs1 \in Regs : FCVT_LU_S(rd, rs1)
    \/ \E rd \in Regs, rs1 \in Regs : FCVT_S_L(rd, rs1)
    \/ \E rd \in Regs, rs1 \in Regs : FCVT_S_LU(rd, rs1)
    \/ \E rd \in Regs, rs1 \in Regs : FCVT_W_S(rd, rs1)
    \/ \E rd \in Regs, rs1 \in Regs : FCVT_WU_S(rd, rs1)

Spec == Init /\ [][Next]_vars

\* Sequences of the instructions that move words between x, f and memory.
\* x[2] holds the address of a word and x[1] a word or an address; the
\* instructions take their data from register 1 and write register 0 or 1.
SeqDst == {0, 1}
SeqSrc == {1}
OtherAddr == <<0, 0, 0, 20>>

InitSeq ==
    /\ limit = MaxSeqLen
    /\ \E a \in {F32NegOne, F32NegQNaN}, xv \in XIn \cup {BaseAddr, OtherAddr} :
           Loaded(a, F32Zero, xv, 0)

NextSeq ==
    \/ \E rd \in SeqDst, rs1 \in Regs : LR_W(rd, rs1)
    \/ \E rd \in SeqDst, rs1 \in Regs, rs2 \in SeqSrc : SC_W(rd, rs1, rs2)
    \/ \E rs1 \in Regs, rs2 \in SeqSrc : FSW(rs1, rs2, 0)
    \/ \E rd \in SeqDst, rs1 \in SeqSrc : FMV_X_W(rd, rs1)
    \/ \E rd \in SeqSrc, rs1 \in SeqSrc : FMV_W_X(rd, rs1)

SeqSpec == InitSeq /\ [][NextSeq]_vars


(***************************************************************************)
(* The test driver: run_test of lib.rs.  The image holds one instruction   *)
(* per 4-byte word; an address past the image cannot be fetched.           *)
(***************************************************************************)
\* the longest image, and the fuel of a run (1_000_000_000 in run_test)
MaxProgLen == 2
MaxFuel == 3

\* Register::A0, Register::A7 and the stack pointer
A0 == 10
A7 == 17
SP == 2
DriverRegs == Regs \cup {A0, A7}

\* MAX_SIZE + STACK_SIZE - 1 = 0x23FFF
StackTop == <<0, 0, 2, 16383>>

\* the instructions an image is made of
InstrSet == {"NOP", "ADDI", "JAL", "ECALL", "EBREAK", "ILLEGAL"}

\* the results of an operation, of a fetch and of a tick
Ok == [ok |-> TRUE, trap_type |-> "None", value |-> Zero64]
Err(trap_type, value) == [ok |-> FALSE, trap_type |-> trap_type, value |-> value]

\* the hook with the exit code taken from a7
EcallHandlerExitA7(a7, a0) ==
    IF a7 = <<0, 0, 0, 64>> THEN Ok
    ELSE IF a7 = <<0, 0, 0, 93>> THEN Err("Stop", a7)
    ELSE Err("SupervisorSoftwareInterrupt", a7)

\* the ecall handler run_test installs, on a7 and a0 as get_register reads them
EcallHandler(a7, a0) ==
    IF a7 = <<0, 0, 0, 64>> THEN Ok                              \* WRITE
    ELSE IF a7 = <<0, 0, 0, 93>> THEN Err("Stop", a0)
    ELSE Err("SupervisorSoftwareInterrupt", a7)

\* Cpu::get_register
get_register(xs, r) == xs[r]

\* Cpu::fetch at address p of the image img: the word and the advanced pc, or
\* a fault when p is past the image
fetch(img, p) ==
    IF p \div 4 < Len(img)
    THEN [res |-> Ok, op |-> img[p \div 4 + 1], pc |-> p + 4]
    ELSE [res |-> Err("InstructionAccessFault", W64OfNat(p)), op |-> "NONE", pc |-> p]

\* Cpu::tick from pc p and registers xs: fetch, advance pc, decode, execute,
\* x[0] := 0; the result with the pc and the registers it leaves
tick(img, p, xs) ==
    LET fe == fetch(img, p)
        op == fe.op
    IN  IF ~fe.res.ok THEN [res |-> fe.res, op |-> op, pc |-> p, x |-> xs]
        ELSE CASE op = "NOP"     -> [res |-> Ok, op |-> op, pc |-> fe.pc, x |-> TickX0(xs)]
               [] op = "ADDI"    -> [res |-> Ok, op |-> op, pc |-> fe.pc,
                                     x |-> TickX0([xs EXCEPT ![A0] = Add64(xs[A0], <<0, 0, 0, 1>>)])]
               [] op = "JAL"     -> [res |-> Ok, op |-> op, pc |-> 0, x |-> TickX0(xs)]
               [] op = "ECALL"   -> [res |-> EcallHandler(get_register(xs, A7), get_register(xs, A0)),
                                     op |-> op, pc |-> fe.pc, x |-> TickX0(xs)]
               [] op = "EBREAK"  -> [res |-> Err("Breakpoint", W64OfNat(p)),
                                     op |-> op, pc |-> fe.pc, x |-> TickX0(xs)]
               [] op = "ILLEGAL" -> [res |-> Err("IllegalInstruction", Zero64),
                                     op |-> op, pc |-> fe.pc, x |-> TickX0(xs)]

\* the peek of a dumping run: save pc, fetch, decode, restore pc
Peek(img, p) ==
    LET saved == p
        fe    == fetch(img, p)
    IN  [ok |-> fe.res.ok, pc |-> saved]

\* fuel left when a tick was allowed with the fuel kept as it was
FuelLeftSame(fl) == fl

\* `fuel = fuel - 1`
FuelLeft(fl) == fl - 1

\* how the loop goes on after a tick that returned res, with fuel fl left
AfterTick(res, fl) ==
    IF res.ok
    THEN IF fl = 0 THEN [how |-> "out of fuel", diag |-> {}] ELSE Running
    ELSE IF res.trap_type = "Stop"
         THEN IF res.value # Zero64
              THEN [how |-> "CPU test failed",
                    diag |-> {"value", "a0", "a1", "a2", "a3", "a4", "t2"}]
              ELSE [how |-> "success", diag |-> {}]
         ELSE [how |-> "CPU failure", diag |-> {"pc", "trap"}]

\* one iteration of the loop of run_test from pc p, registers xs and fuel
\* fl, dumping the instructions when d: the state it leaves and what happened
Iterate(d, img, p, xs, fl) ==
    LET pk == IF d THEN Peek(img, p) ELSE [ok |-> TRUE, pc |-> p]
        t  == tick(img, pk.pc, xs)
        fl2 == IF t.res.ok THEN FuelLeft(fl) ELSE fl
    IN  IF ~pk.ok
        THEN [pc |-> pk.pc, x |-> xs, fuel |-> fl,
              ended |-> [how |-> "instruction fetch failed", diag |-> {"trap"}],
              ticked |-> FALSE, op |-> "NONE", res |-> fetch(img, p).res]
        ELSE [pc |-> t.pc, x |-> t.x, fuel |-> fl2,
              ended |-> AfterTick(t.res, fl2),
              ticked |-> TRUE, op |-> t.op, res |-> t.res]

\* the loop of run_test runs one more iteration
LoopIteration ==
    LET it == Iterate(dump_instructions, target, pc, x, fuel)
    IN  /\ ended.how = "running"
        /\ pc' = it.pc
        /\ x' = it.x
        /\ fuel' = it.fuel
        /\ ended' = it.ended
        /\ hist' = Append(hist, [op |-> it.op, ticked |-> it.ticked, res |-> it.res,
                                 pc |-> pc, x |-> x, fuel |-> fuel])
        /\ UNCHANGED <<f, fcsr, reservation, mem, limit, dump_instructions, target>>

\* the values of a7 and a0, and the images, a run starts with
A7In == {Zero64, <<0, 0, 0, 64>>, <<0, 0, 0, 93>>, <<0, 0, 0, 94>>,
         <<0, 0, 1, 93>>, U64Max}
A0In == {Zero64, <<0, 0, 0, 1>>, <<0, 0, 0, 2>>, U64Max}
Images == UNION {[1 .. n -> InstrSet] : n \in 1 .. MaxProgLen}

\* run_test before the loop: the hart as constructed, pc at the entry point,
\* the stack pointer set, the fuel full
DriverInit ==
    /\ pc = 0
    /\ fuel = MaxFuel
    /\ dump_instructions \in BOOLEAN
    /\ target \in Images
    /\ ended = Running
    /\ \E a7 \in A7In, a0 \in A0In :
           x = [r \in DriverRegs |-> IF r = A7 THEN a7 ELSE IF r = A0 THEN a0
                                     ELSE IF r = SP THEN StackTop ELSE Zero64]
    /\ f = [r \in Regs |-> Zero64]
    /\ fcsr = 0
    /\ reservation = NoReservation
    /\ mem = MemInit
    /\ hist = <<>>
    /\ limit = 0

DriverNext == LoopIteration

DriverSpec == DriverInit /\ [][DriverNext]_vars

\* the loop is sequential code: while it has not ended it takes its next
\* iteration
DriverLive == DriverSpec /\ WF_vars(DriverNext)


(***************************************************************************)
(* Claims                                                                  *)
(***************************************************************************)
Done == Len(hist) > 0
Last == hist[Len(hist)]
Ones32 == <<65535, 65535>>

\* the instructions that write a single to f[rd]
SingleWriters == {"FLW", "FMV.W.X", "FADD.S", "FSUB.S", "FMUL.S", "FDIV.S",
                  "FSQRT.S", "FSGNJ.S", "FSGNJN.S", "FSGNJX.S",
                  "FCVT.S.W", "FCVT.S.WU", "FCVT.S.L", "FCVT.S.LU"}

\* C1: after an instruction that writes a single to f[rd], f[rd] is
\* NaN-boxed (its upper 32 bits are all 1s), and after FLW the lower 32 bits
\* of f[rd] are the word loaded, whatever bit 31 of that word is.
C1_SingleWritesAreBoxed ==
    Done /\ Last.op \in SingleWriters =>
        /\ Hi32(f[Last.rd]) = Ones32
        /\ Last.op = "FLW" => Lo32(f[Last.rd]) = Last.a

\* C2: every exception flag of fcsr that was set before an instruction is
\* still set after it.
C2_FlagsAreCumulative ==
    Done => \A b \in FlagBits : HasBit(Last.fcsr0, b) => HasBit(fcsr, b)

\* C2 witness: FCVT.LU.S of an integer-valued input has run with flags set
\* and nx clear, the host's cast raised inexact, and the flags are as before.
C2_Witness ==
    /\ Done
    /\ Last.op = "FCVT.LU.S"
    /\ Last.hostNx
    /\ Last.a = F32One
    /\ Last.fcsr0 = 62
    /\ fcsr = 62

\* C3: in the sequence LR.W at A, FSW to A, SC.W to A, the SC.W does not
\* succeed: it writes 1 to x[rd] and leaves the word at A as it was.
C3_FswInvalidatesReservation ==
    LET n == Len(hist)
    IN  ( /\ n >= 3
          /\ hist[n - 2].op = "LR.W"
          /\ hist[n - 1].op = "FSW"
          /\ hist[n].op = "SC.W"
          /\ hist[n - 1].addr = hist[n - 2].addr
          /\ hist[n].addr = hist[n - 2].addr )
        => /\ mem[hist[n].addr] = hist[n].old
           /\ hist[n].rd # 0 => x[hist[n].rd] = <<0, 0, 0, 1>>

\* C4: FDIV.S by a zero: a finite nonzero dividend gives +infinity for the
\* divisor +0.0 and -infinity for the divisor -0.0, with dz set; a zero
\* dividend gives the canonical NaN 0x7FC00000 with nv set and dz as it was.
C4_FdivByZero ==
    Done /\ Last.op = "FDIV.S" /\ IsZero(Last.b) =>
        /\ (FExp(Last.a) # 255 /\ ~IsZero(Last.a)) =>
              /\ f[Last.rd] = Box(IF Last.b = F32Zero THEN F32Inf ELSE F32NegInf)
              /\ HasBit(fcsr, DZ)
        /\ IsZero(Last.a) =>
              /\ f[Last.rd] = Box(F32QNaN)
              /\ HasBit(fcsr, NV)
              /\ HasBit(fcsr, DZ) = HasBit(Last.fcsr0, DZ)

\* C5: with a NaN operand, FEQ.S writes 0 to x[rd] and leaves fcsr as it
\* was; FLT.S and FLE.S write 0 to x[rd] and nv is set afterwards.
C5_NanComparisons ==
    Done /\ (IsNan(Last.a) \/ IsNan(Last.b)) =>
        /\ Last.op = "FEQ.S" => x[Last.rd] = Zero64 /\ fcsr = Last.fcsr0
        /\ Last.op \in {"FLT.S", "FLE.S"} =>
              x[Last.rd] = Zero64 /\ HasBit(fcsr, NV)

\* C5 witness: FEQ.S has compared a NaN with itself, into a register other
\* than x0.
C5_Witness ==
    /\ Done
    /\ Last.op = "FEQ.S"
    /\ IsNan(Last.a)
    /\ Last.b = Last.a
    /\ Last.rd # 0
    /\ x[Last.rd] = Zero64


\* the conversions from a single to an integer, and the bounds of their types
ConvOps == {"FCVT.W.S", "FCVT.WU.S", "FCVT.L.S", "FCVT.LU.S"}
UnsignedConvOps == {"FCVT.WU.S", "FCVT.LU.S"}

\* the least single too large for the type: 2^31, 2^32, 2^63, 2^64
UpperBound(op) == CASE op = "FCVT.W.S"  -> <<20224, 0>>
                    [] op = "FCVT.WU.S" -> <<20352, 0>>
                    [] op = "FCVT.L.S"  -> <<24320, 0>>
                    [] op = "FCVT.LU.S" -> <<24448, 0>>

TooLarge(op, v) == F32Le(UpperBound(op), v)
TooSmall(op, v) == CASE op = "FCVT.W.S"  -> F32Lt(v, <<52992, 0>>)   \* < -2^31
                     [] op = "FCVT.L.S"  -> F32Lt(v, <<57088, 0>>)   \* < -2^63
                     [] OTHER            -> F32Le(v, F32NegOne)      \* <= -1.0
Unrepresentable(op, v) == IsNan(v) \/ TooLarge(op, v) \/ TooSmall(op, v)

\* the largest and least value of the type, as x[rd] holds it
TypeMax(op) == CASE op = "FCVT.W.S"  -> <<0, 0, 32767, 65535>>
                 [] op = "FCVT.WU.S" -> U64Max
                 [] op = "FCVT.L.S"  -> I64Max
                 [] op = "FCVT.LU.S" -> U64Max
TypeMin(op) == CASE op = "FCVT.W.S"  -> <<65535, 65535, 32768, 0>>
                 [] op = "FCVT.L.S"  -> I64Min
                 [] OTHER            -> Zero64

\* C6: a conversion of a NaN, an infinity or a finite value out of range
\* saturates (NaN and the large values to the type's maximum, the small
\* ones to its minimum) and sets nv without setting nx.
C6_ConversionsSaturate ==
    Done /\ Last.op \in ConvOps /\ Unrepresentable(Last.op, Last.a) =>
        /\ Last.rd # 0 =>
              x[Last.rd] = IF IsNan(Last.a) \/ TooLarge(Last.op, Last.a)
                           THEN TypeMax(Last.op) ELSE TypeMin(Last.op)
        /\ HasBit(fcsr, NV)
        /\ HasBit(fcsr, NX) = HasBit(Last.fcsr0, NX)

\* the rounding mode field of fcsr
Frm(c) == (c \div 32) % 8

\* the integer part of v, in the type of the conversion
IntPart(op, v) == IF op \in UnsignedConvOps THEN F32ToU64(v) ELSE F32ToI64(v)

\* v rounded to an integer in the rounding mode rm: 0 to nearest, ties to
\* even; 1 toward zero; 2 down; 3 up; 4 to nearest, ties away from zero
RoundedInt(op, v, rm) ==
    LET t     == IntPart(op, v)
        frac  == F32Fract(v)
        half  == 1056964608                      \* the magnitude bits of 0.5
        away  == IF FSign(v) = 1 THEN Add64(t, U64Max) ELSE Add64(t, <<0, 0, 0, 1>>)
        odd   == t[4] % 2 = 1
        moved == CASE rm = 0 -> FMag(frac) > half \/ (FMag(frac) = half /\ odd)
                   [] rm = 1 -> FALSE
                   [] rm = 2 -> FSign(v) = 1 /\ FMag(frac) # 0
                   [] rm = 3 -> FSign(v) = 0 /\ FMag(frac) # 0
                   [] OTHER  -> FMag(frac) >= half
    IN  IF moved THEN away ELSE t

\* the value as x[rd] holds it: a 32-bit result is sign-extended
InRd(op, r) == IF op \in {"FCVT.W.S", "FCVT.WU.S"} THEN SExt32(Lo32(r)) ELSE r

\* C7: a conversion of a finite value in range with a fractional part
\* gives the integer rounded in the rounding mode of frm and sets nx; one
\* of an integer value in range gives that integer and leaves fcsr as it was.
C7_ConversionsRoundPerFrm ==
    LET op == Last.op
        v  == Last.a
        r  == RoundedInt(op, v, Frm(Last.fcsr0))
    IN  ( /\ Done
          /\ op \in ConvOps
          /\ ~Unrepresentable(op, v)
          /\ ~(op \in UnsignedConvOps /\ r = U64Max) )
        => IF FMag(F32Fract(v)) # 0
           THEN /\ Last.rd # 0 => x[Last.rd] = InRd(op, r)
                /\ HasBit(fcsr, NX)
           ELSE /\ Last.rd # 0 => x[Last.rd] = InRd(op, IntPart(op, v))
                /\ fcsr = Last.fcsr0

\* C8: FCVT.WU.S of an input in (-1.0, 0.0] writes 0 to x[rd], leaves nv as
\* it was and sets nx exactly when the input is not a zero (it then has a
\* fractional part); of an input <= -1.0 it writes 0 and sets nv.
C8_FcvtWuNegative ==
    Done /\ Last.op = "FCVT.WU.S" =>
        /\ (F32Lt(F32NegOne, Last.a) /\ F32Le(Last.a, F32Zero)) =>
              /\ x[Last.rd] = Zero64
              /\ fcsr = IF IsZero(Last.a) THEN Last.fcsr0
                        ELSE SetBit(Last.fcsr0, NX)
        /\ F32Le(Last.a, F32NegOne) =>
              /\ x[Last.rd] = Zero64
              /\ HasBit(fcsr, NV)

\* C8 witness: FCVT.WU.S of -0.5 has written 0 and set nx and not nv.
C8_Witness ==
    /\ Done
    /\ Last.op = "FCVT.WU.S"
    /\ Last.a = <<48896, 0>>
    /\ Last.rd # 0
    /\ Last.fcsr0 = 0
    /\ x[Last.rd] = Zero64
    /\ fcsr = NX

\* C9: FCVT.W.S, FCVT.WU.S and FMV.X.W leave in x[rd] the sign extension of
\* its own low 32 bits; the FCVT.WU.S result 0x80000000 is held as
\* 0xFFFFFFFF80000000.
C9_WordResultsSignExtended ==
    Done /\ Last.op \in {"FCVT.W.S", "FCVT.WU.S", "FMV.X.W"} =>
        /\ x[Last.rd] = SExt32(Lo32(x[Last.rd]))
        /\ (Last.op = "FCVT.WU.S" /\ Last.a = <<20224, 0>> /\ Last.rd # 0) =>
              x[Last.rd] = <<65535, 65535, 32768, 0>>

\* C9 witness: FCVT.WU.S of 2^31 has written 0xFFFFFFFF80000000.
C9_Witness ==
    /\ Done
    /\ Last.op = "FCVT.WU.S"
    /\ Last.a = <<20224, 0>>
    /\ Last.rd # 0
    /\ x[Last.rd] = <<65535, 65535, 32768, 0>>

\* FMV.W.X of x[rs1] and then FMV.X.W of the register it wrote, into a
\* register other than x0, were the last two instructions
RoundTripped ==
    LET n == Len(hist)
    IN  /\ n >= 2
        /\ hist[n - 1].op = "FMV.W.X"
        /\ hist[n].op = "FMV.X.W"
        /\ hist[n].rs1 = hist[n - 1].rd
        /\ hist[n].rd # 0

\* C10: FMV.W.X and then FMV.X.W of a 64-bit x[rs1] give the low 32 bits of
\* x[rs1] sign-extended, and 0x7FC00000 when those bits are 0xFFC00000.
C10_MoveRoundTrip ==
    RoundTripped =>
        LET n   == Len(hist)
            low == Lo32(hist[n - 1].xs1)
        IN  x[hist[n].rd] = IF low = <<65472, 0>> THEN <<0, 0, 32704, 0>>
                            ELSE SExt32(low)

\* C10 witness: the round trip of 0x00000000FFC00000 has given 0x7FC00000.
C10_Witness ==
    /\ RoundTripped
    /\ hist[Len(hist) - 1].xs1 = <<0, 0, 65472, 0>>
    /\ x[hist[Len(hist)].rd] = <<0, 0, 32704, 0>>


SignInjections == {"FSGNJ.S", "FSGNJN.S", "FSGNJX.S"}

\* the sign a sign injection gives its result, from the signs of a and b
InjectedSign(op, a, b) ==
    CASE op = "FSGNJ.S"  -> FSign(b)
      [] op = "FSGNJN.S" -> 1 - FSign(b)
      [] op = "FSGNJX.S" -> (FSign(a) + FSign(b)) % 2

\* C11: a sign injection writes to f[rd], NaN-boxed, bits 30..0 of a with
\* the sign of b (FSGNJ.S), its inverse (FSGNJN.S) or sign(a) XOR sign(b)
\* (FSGNJX.S), and leaves fcsr as it was; with rs1 = rs2 the result is a,
\* a with its sign flipped, and a with its sign cleared.
C11_SignInjection ==
    Done /\ Last.op \in SignInjections =>
        LET a == Last.a
            b == Last.b
            r == Lo32(f[Last.rd])
        IN  /\ Hi32(f[Last.rd]) = Ones32
            /\ FMag(r) = FMag(a)
            /\ FSign(r) = InjectedSign(Last.op, a, b)
            /\ fcsr = Last.fcsr0
            /\ Last.rs1 = Last.rs2 =>
                  r = CASE Last.op = "FSGNJ.S"  -> a
                        [] Last.op = "FSGNJN.S" -> MkF32(1 - FSign(a), FExp(a), FMan(a))
                        [] Last.op = "FSGNJX.S" -> MkF32(0, FExp(a), FMan(a))

\* C11 witness: FSGNJX.S of -1.5 and -0.0 has written 1.5.
C11_Witness ==
    /\ Done
    /\ Last.op = "FSGNJX.S"
    /\ Last.a = <<49088, 0>>
    /\ Last.b = F32NegZero
    /\ f[Last.rd] = <<65535, 65535, 16320, 0>>


\* the hart outside pc and x, which no instruction of an image touches
HartRestUntouched ==
    /\ f = [r \in Regs |-> Zero64]
    /\ fcsr = 0
    /\ reservation = NoReservation
    /\ mem = MemInit

\* C12: the environment-call hook returns Ok for a7 = 64, a Stop trap with
\* value a0 for a7 = 93, and a SupervisorSoftwareInterrupt trap with value
\* a7 for every other a7; it changes no register and no memory.
C12_EcallHook ==
    Done /\ Last.ticked /\ Last.op = "ECALL" =>
        LET a7 == Last.x[A7]
            a0 == Last.x[A0]
            r  == Last.res
        IN  /\ a7 = <<0, 0, 0, 64>> => r.ok
            /\ a7 = <<0, 0, 0, 93>> =>
                  ~r.ok /\ r.trap_type = "Stop" /\ r.value = a0
            /\ a7 \notin {<<0, 0, 0, 64>>, <<0, 0, 0, 93>>} =>
                  ~r.ok /\ r.trap_type = "SupervisorSoftwareInterrupt" /\ r.value = a7
            /\ x = Last.x
            /\ HartRestUntouched

\* C12 witness: an ECALL with a7 = 93 and a0 = 2 has returned Stop with value 2.
C12_Witness ==
    /\ Done
    /\ Last.ticked
    /\ Last.op = "ECALL"
    /\ Last.x[A7] = <<0, 0, 0, 93>>
    /\ Last.x[A0] = <<0, 0, 0, 2>>
    /\ Last.res = Err("Stop", <<0, 0, 0, 2>>)
    /\ ended.how = "CPU test failed"

\* the last tick returned a trap other than Stop with value 0
TickFailed ==
    Done /\ Last.ticked /\ ~Last.res.ok /\ Last.res # Err("Stop", Zero64)

\* C13: run_test succeeds exactly when a tick returns Stop with value 0;
\* every other trap ends it as a failure whose diagnostic includes the pc,
\* a0 to a4 and t2.
C13_DriverOutcome ==
    /\ (ended.how = "success") =
           (Done /\ Last.ticked /\ Last.res = Err("Stop", Zero64))
    /\ TickFailed =>
           /\ ended.how \in {"CPU test failed", "CPU failure"}
           /\ {"pc", "a0", "a1", "a2", "a3", "a4", "t2"} \subseteq ended.diag

\* the driver's state after at most n iterations from s, dumping when d
RECURSIVE RunFrom(_, _, _, _)
RunFrom(d, img, s, n) ==
    IF n = 0 \/ s.ended.how # "running" THEN s
    ELSE LET it == Iterate(d, img, s.pc, s.x, s.fuel)
         IN  RunFrom(d, img,
                     [pc |-> it.pc, x |-> it.x, fuel |-> it.fuel, ended |-> it.ended],
                     n - 1)

\* C14: a dumping run is, after every iteration, in the state the run
\* without dumping is in after as many iterations (same pc, x and fuel, the
\* same end of the loop), and the rest of the hart is untouched.
C14_DumpingChangesNothing ==
    Done /\ dump_instructions =>
        LET s0 == [pc |-> hist[1].pc, x |-> hist[1].x, fuel |-> hist[1].fuel,
                   ended |-> Running]
            r  == RunFrom(FALSE, target, s0, Len(hist))
        IN  /\ pc = r.pc
            /\ x = r.x
            /\ fuel = r.fuel
            /\ ended = r.ended
            /\ HartRestUntouched

\* the ticks that returned Ok
OkTicks == Cardinality({i \in 1 .. Len(hist) : hist[i].ticked /\ hist[i].res.ok})

\* the fuel is the initial fuel less the successful ticks and never below
\* 0; the loop runs only with fuel left and only after successful ticks; a
\* tick that returned a trap, and fuel 0, have ended it
FuelAccounting ==
    /\ fuel = MaxFuel - OkTicks
    /\ fuel >= 0
    /\ \A i \in 1 .. Len(hist) - 1 : hist[i].ticked /\ hist[i].res.ok
    /\ ended.how = "running" => fuel > 0 /\ OkTicks = Len(hist)
    /\ (Done /\ Last.ticked /\ ~Last.res.ok) => ended.how # "running"
    /\ (ended.how = "out of fuel") = (OkTicks = MaxFuel)

=============================================================================
